---- MODULE Spec2Model ----
(***************************************************************************)
(* Model of the game backend of src/main.py: the five tables (users,       *)
(* sessions, item, user_earned_items, user_time), the session helpers and  *)
(* the six endpoints.  Strings that the code parses (the money column) are *)
(* sequences of one-character strings; opaque strings (documents, names,   *)
(* enum values) are TLA+ strings.  Time is counted in days.                *)
(***************************************************************************)
EXTENDS Integers, Sequences, FiniteSets, TLC

VARIABLES
    users,              \* table users: sequence of rows, id = position
    sessions,           \* table sessions: set of rows
    item,               \* table item: set of rows (reference data)
    user_earned_items,  \* table user_earned_items: sequence of rows
    user_time,          \* table user_time: sequence of rows
    now,                \* datetime.utcnow(), in days
    next_token,         \* number of the next token token_urlsafe yields
    inflight,           \* per worker: the request it is in the middle of
    last,               \* the last request served: operation, input, answer
    hist,               \* per user: balance last set, coins and calls since,
                        \* and all committed complete-level calls
    updates             \* number of committed profile updates so far

vars == <<users, sessions, item, user_earned_items, user_time, now,
          next_token, inflight, last, hist, updates>>

(* ------------------------------ bounds --------------------------------- *)
\* Every specification: rows of users, the clock, concurrent workers.
MaxUsers == 2
MaxNow == 8
MaxWorkers == 2
\* SpecSession and SpecRace: tokens issued.
MaxTokens == 3
\* SpecProgress: tokens issued, complete-level calls committed.
MaxPlayers == 1
MaxCalls == 5
\* Spec and SpecProfile: tokens issued, calls and updates committed.
MaxLogins == 1
MaxCompletions == 1
MaxUpdates == 1
\* SpecCore: tokens issued, complete-level calls committed (updates as in
\* Spec).
MaxSessions == 2
MaxRecords == 2
\* SpecConcurrent: complete-level requests admitted.
MaxRequests == 2

(* ------------------------- program constants --------------------------- *)
SCHOOL_VALUES == {"Aguachica", "La Argentina", "Aractaca"}
GENDER_VALUES == {"Masculino", "Femenino"}
MaxLevel == 5
SessionDays == 7
DefaultLevel == 1
DefaultMoney == <<"0">>

LEVEL_REWARDS(lvl) ==
    CASE lvl = 1 -> {"cinturon", "cristal-rojo"}
      [] lvl = 2 -> {"pechera", "cristal-amarillo"}
      [] lvl = 3 -> {"botas", "cristal-gris"}
      [] lvl = 4 -> {"casco", "cristal-verde"}
      [] OTHER -> {}

None == [none |-> TRUE]

(* ------------------- Python int(str) and str(int) ---------------------- *)
DigitChars == {"0", "1", "2", "3", "4", "5", "6", "7", "8", "9"}

DigitVal(c) ==
    CASE c = "0" -> 0 [] c = "1" -> 1 [] c = "2" -> 2 [] c = "3" -> 3
      [] c = "4" -> 4 [] c = "5" -> 5 [] c = "6" -> 6 [] c = "7" -> 7
      [] c = "8" -> 8 [] c = "9" -> 9

DigitChar(d) ==
    CASE d = 0 -> "0" [] d = 1 -> "1" [] d = 2 -> "2" [] d = 3 -> "3"
      [] d = 4 -> "4" [] d = 5 -> "5" [] d = 6 -> "6" [] d = 7 -> "7"
      [] d = 8 -> "8" [] d = 9 -> "9"

RECURSIVE StripLeft(_)
StripLeft(s) ==
    IF s # <<>> /\ Head(s) = " " THEN StripLeft(Tail(s)) ELSE s

RECURSIVE StripRight(_)
StripRight(s) ==
    IF s # <<>> /\ s[Len(s)] = " "
    THEN StripRight(SubSeq(s, 1, Len(s) - 1))
    ELSE s

Strip(s) == StripRight(StripLeft(s))

\* The digit part of an integer literal: digits, single underscores allowed
\* between two digits only.
DigitsOk(s) ==
    /\ s # <<>>
    /\ \A i \in 1..Len(s) : s[i] \in DigitChars \cup {"_"}
    /\ s[1] # "_"
    /\ s[Len(s)] # "_"
    /\ \A i \in 1..(Len(s) - 1) : ~(s[i] = "_" /\ s[i + 1] = "_")

RECURSIVE DigitsValue(_, _)
DigitsValue(s, acc) ==
    IF s = <<>> THEN acc
    ELSE IF Head(s) = "_" THEN DigitsValue(Tail(s), acc)
    ELSE DigitsValue(Tail(s), 10 * acc + DigitVal(Head(s)))

\* int(s): [ok |-> FALSE] stands for ValueError.
PyInt(s) ==
    LET t == Strip(s)
        signed == t # <<>> /\ Head(t) \in {"-", "+"}
        body == IF signed THEN Tail(t) ELSE t
        neg == signed /\ Head(t) = "-"
    IN IF DigitsOk(body)
       THEN [ok |-> TRUE,
             val |-> IF neg THEN 0 - DigitsValue(body, 0)
                     ELSE DigitsValue(body, 0)]
       ELSE [ok |-> FALSE, val |-> 0]

RECURSIVE NatStr(_)
NatStr(n) ==
    IF n < 10 THEN <<DigitChar(n)>>
    ELSE Append(NatStr(n \div 10), DigitChar(n % 10))

\* str(n) for an int n.
PyStr(n) == IF n < 0 THEN <<"-">> \o NatStr(0 - n) ELSE NatStr(n)

(* ------------------------------ tables --------------------------------- *)
\* Seeded ids of the reward items (the item table is filled outside the API).
ItemNames == <<"cinturon", "cristal-rojo", "pechera", "cristal-amarillo",
               "botas", "cristal-gris", "casco", "cristal-verde">>

AllRewardNames == {ItemNames[i] : i \in 1..Len(ItemNames)}

ItemRow(i) ==
    [id |-> i, name |-> ItemNames[i],
     item_type |-> IF i % 2 = 0 THEN "cristal" ELSE "armadura"]

\* The catalogs the model starts from: complete, and with two rewards missing.
Catalogs ==
    { {ItemRow(i) : i \in 1..Len(ItemNames)},
      {ItemRow(i) : i \in (1..Len(ItemNames)) \ {1, 7}} }

UserIds(tbl) == 1..Len(tbl)

\* Variant: level left to a default of 0.
NewUser_level0(id, p) ==
    [id |-> id, document |-> p.document, name |-> p.name,
     school |-> p.school, gender |-> p.gender,
     money |-> DefaultMoney, level |-> 0]

\* User(...) with the column defaults money="0", level=1.
NewUser(id, p) ==
    [id |-> id, document |-> p.document, name |-> p.name,
     school |-> p.school, gender |-> p.gender,
     money |-> DefaultMoney, level |-> DefaultLevel]

(* --------------------------- session helpers --------------------------- *)
\* secrets.token_urlsafe(32): a token no earlier call produced and no caller
\* could have supplied before; tokens are numbered in the order of issue and
\* 0 stands for every string that is never issued.
FreshToken == next_token

\* Variant: a login also renews the sessions the player already has.
create_session_renewing(tbl, user_id, token, t) ==
    {IF s.user_id = user_id THEN [s EXCEPT !.expires_at = t + SessionDays]
     ELSE s : s \in tbl}
       \cup {[user_id |-> user_id, token |-> token,
              expires_at |-> t + SessionDays]}

create_session(tbl, user_id, token, t) ==
    tbl \cup {[user_id |-> user_id, token |-> token,
               expires_at |-> t + SessionDays]}

\* Variant: a session still counts at its expiry instant.
LiveSessions_inclusive(tbl, token, t) ==
    {s \in tbl : s.token = token /\ s.expires_at >= t}

LiveSessions(tbl, token, t) ==
    {s \in tbl : s.token = token /\ s.expires_at > t}

user_by_token(tbl, utbl, token, t) ==
    LET found == LiveSessions(tbl, token, t)
    IN IF found = {} THEN None
       ELSE utbl[(CHOOSE s \in found : TRUE).user_id]

\* Variant: the token is taken from the header whatever its scheme.
require_auth_any_scheme(tbl, utbl, authorization, t) ==
    IF authorization = <<>>
    THEN [status |-> 401, user |-> None]
    ELSE LET user == user_by_token(tbl, utbl, authorization[2], t)
         IN IF user = None THEN [status |-> 401, user |-> None]
            ELSE [status |-> 200, user |-> user]

\* A header is <<>> (absent) or <<scheme, token>>.
require_auth(tbl, utbl, authorization, t) ==
    IF authorization = <<>> \/ authorization[1] # "Bearer"
    THEN [status |-> 401, user |-> None]
    ELSE LET user == user_by_token(tbl, utbl, authorization[2], t)
         IN IF user = None THEN [status |-> 401, user |-> None]
            ELSE [status |-> 200, user |-> user]

(* ------------------------------ read model ----------------------------- *)
earned_items(cat, etbl, uid) ==
    {it \in cat : \E k \in 1..Len(etbl) :
                     etbl[k].user_id = uid /\ etbl[k].item_id = it.id}

UserOut(u, cat, etbl) ==
    [id |-> u.id, document |-> u.document, name |-> u.name,
     school |-> u.school, gender |-> u.gender, money |-> u.money,
     level |-> u.level, items |-> earned_items(cat, etbl, u.id)]

(* ------------------------------- register ------------------------------ *)
\* RegisterIn: school and gender are Literal types.
ValidRegisterIn(p) ==
    p.school \in SCHOOL_VALUES /\ p.gender \in GENDER_VALUES

register_exists(utbl, document) ==
    \E i \in UserIds(utbl) : utbl[i].document = document

\* Variant: the table without its unique constraint.
register_insert_unconstrained(utbl, p) ==
    [ok |-> TRUE, users |-> Append(utbl, NewUser(Len(utbl) + 1, p))]

\* db.add(user); db.commit() under uq_users_document.
register_insert(utbl, p) ==
    IF \E i \in UserIds(utbl) : utbl[i].document = p.document
    THEN [ok |-> FALSE, users |-> utbl]
    ELSE [ok |-> TRUE, users |-> Append(utbl, NewUser(Len(utbl) + 1, p))]

\* The whole handler.  A committed registration answers 500: the handler
\* returns the ORM row, which has no "items" attribute for UserOut.
register(utbl, p) ==
    IF ~ValidRegisterIn(p)
    THEN [status |-> 422, committed |-> FALSE, users |-> utbl]
    ELSE IF p.school \notin SCHOOL_VALUES \/ p.gender \notin GENDER_VALUES
    THEN [status |-> 400, committed |-> FALSE, users |-> utbl]
    ELSE IF register_exists(utbl, p.document)
    THEN [status |-> 400, committed |-> FALSE, users |-> utbl]
    ELSE LET r == register_insert(utbl, p)
         IN [status |-> 500, committed |-> r.ok, users |-> r.users]

(* ---------------------------- complete_level --------------------------- *)
\* Variant: the increment without the cap.
next_level_uncapped(level) == level + 1

\* if current.level < 5: current.level += 1
next_level(level) == IF level < MaxLevel THEN level + 1 ELSE level

\* Variant: the balance is overwritten with the coins earned.
add_coins_overwrite(money, coins_earned) ==
    IF PyInt(money).ok
    THEN [ok |-> TRUE, money |-> PyStr(coins_earned)]
    ELSE [ok |-> FALSE, money |-> money]

\* int(current.money) ... str(current_money + coins_earned)
add_coins(money, coins_earned) ==
    LET current_money == PyInt(money)
    IN IF current_money.ok
       THEN [ok |-> TRUE, money |-> PyStr(current_money.val + coins_earned)]
       ELSE [ok |-> FALSE, money |-> money]

\* Variant: the rewards are looked up under the level reached.
items_to_add_level_reached(cat, level) ==
    {it \in cat : it.name \in LEVEL_REWARDS(level)}

\* db.query(ItemModel).filter(ItemModel.name.in_(rewards))
items_to_add(cat, level) ==
    {it \in cat : it.name \in LEVEL_REWARDS(level - 1)}

\* Variant: the grant without the look-up of an existing link.
already_has_never(etbl, uid, item_id) == FALSE

already_has(etbl, uid, item_id) ==
    \E k \in 1..Len(etbl) : etbl[k].user_id = uid /\ etbl[k].item_id = item_id

\* The loop over items_to_add, in id order: one new link per item the user
\* does not hold yet.
RECURSIVE grant(_, _, _)
grant(etbl, uid, todo) ==
    IF todo = {} THEN <<>>
    ELSE LET it == CHOOSE x \in todo : \A y \in todo : x.id <= y.id
             rest == grant(etbl, uid, todo \ {it})
         IN IF already_has(etbl, uid, it.id) THEN rest
            ELSE <<[user_id |-> uid, item_id |-> it.id]>> \o rest

\* Variant: the record carries the level reached.
time_record_level_reached(user_id, time_spent, level) ==
    [user_id |-> user_id, time |-> time_spent, level |-> level]

\* UserTime(user_id=current.id, time=data.time_spent, level=current.level - 1)
\* with current.level already incremented.
time_record(user_id, time_spent, level) ==
    [user_id |-> user_id, time |-> time_spent, level |-> level - 1]

\* Variant: the level increment reaches the store before the balance is
\* parsed.
complete_level_flushed(current, data, cat, etbl) ==
    LET level == next_level(current.level)
        coins == add_coins(current.money, data.coins_earned)
    IN IF ~coins.ok
       THEN [status |-> 500, committed |-> FALSE,
             user |-> [current EXCEPT !.level = level],
             times |-> <<>>, earned |-> <<>>]
       ELSE [status |-> 200, committed |-> TRUE,
             user |-> [current EXCEPT !.level = level, !.money = coins.money],
             times |-> <<time_record(current.id, data.time_spent, level)>>,
             earned |-> grant(etbl, current.id, items_to_add(cat, level))]

\* The handler after require_auth: what it commits (commit = FALSE: the
\* HTTPException leaves the transaction to be rolled back by get_db).
complete_level(current, data, cat, etbl) ==
    LET level == next_level(current.level)
        coins == add_coins(current.money, data.coins_earned)
    IN IF ~coins.ok
       THEN [status |-> 500, committed |-> FALSE, user |-> current,
             times |-> <<>>, earned |-> <<>>]
       ELSE [status |-> 200, committed |-> TRUE,
             user |-> [current EXCEPT !.level = level, !.money = coins.money],
             times |-> <<time_record(current.id, data.time_spent, level)>>,
             earned |-> grant(etbl, current.id, items_to_add(cat, level))]

\* db.commit() of the handler: the UPDATE carries the columns whose value the
\* handler changed on the row it loaded; any other column keeps what the
\* store holds.
flush_user(stored, loaded, changed) ==
    [stored EXCEPT
        !.level = IF changed.level # loaded.level THEN changed.level ELSE @,
        !.money = IF changed.money # loaded.money THEN changed.money ELSE @]

(* ------------------------------- update_me ----------------------------- *)
\* A patch field is <<>> (None) or <<value>>.
ValidUpdateMeIn(data) ==
    /\ data.school # <<>> => data.school[1] \in SCHOOL_VALUES
    /\ data.gender # <<>> => data.gender[1] \in GENDER_VALUES
    /\ data.level # <<>> => data.level[1] >= 1

\* The assignments of the handler, in order, on the in-memory row.
apply_patch(current, data) ==
    LET a == IF data.name # <<>> THEN [current EXCEPT !.name = data.name[1]]
             ELSE current
        b == IF data.school # <<>> THEN [a EXCEPT !.school = data.school[1]]
             ELSE a
        c == IF data.gender # <<>> THEN [b EXCEPT !.gender = data.gender[1]]
             ELSE b
        d == IF data.money # <<>> THEN [c EXCEPT !.money = data.money[1]]
             ELSE c
    IN IF data.level # <<>> THEN [d EXCEPT !.level = data.level[1]] ELSE d

\* Variant: the patch is applied and committed without any validation.
update_me_unchecked(current, data) ==
    [status |-> 500, committed |-> TRUE, user |-> apply_patch(current, data)]

\* The handler after require_auth.  A committed update answers 500 for the
\* same reason as register.
update_me(current, data) ==
    IF ~ValidUpdateMeIn(data)
    THEN [status |-> 422, committed |-> FALSE, user |-> current]
    ELSE IF data.school # <<>> /\ data.school[1] \notin SCHOOL_VALUES
    THEN [status |-> 400, committed |-> FALSE, user |-> current]
    ELSE IF data.gender # <<>> /\ data.gender[1] \notin GENDER_VALUES
    THEN [status |-> 400, committed |-> FALSE, user |-> current]
    ELSE [status |-> 500, committed |-> TRUE,
          user |-> apply_patch(current, data)]

(* -------------------------------- login -------------------------------- *)
find_user(utbl, document) ==
    IF \E i \in UserIds(utbl) : utbl[i].document = document
    THEN utbl[CHOOSE i \in UserIds(utbl) :
                 /\ utbl[i].document = document
                 /\ \A j \in UserIds(utbl) :
                       utbl[j].document = document => i <= j]
    ELSE None

(* -------------------------------- logout ------------------------------- *)
\* Variant: the delete takes every session of the token's owner.
logout_owner(tbl, token) ==
    LET owners == {s.user_id : s \in {x \in tbl : x.token = token}}
    IN [deleted |-> Cardinality({s \in tbl : s.user_id \in owners}),
        sessions |-> {s \in tbl : s.user_id \notin owners}]

\* Variant: the delete matches no row.
logout_keeps(tbl, token) == [deleted |-> 0, sessions |-> tbl]

\* db.query(SessionToken).filter_by(token=token).delete()
logout(tbl, token) ==
    [deleted |-> Cardinality({s \in tbl : s.token = token}),
     sessions |-> {s \in tbl : s.token # token}]

(* ------------------------------- inputs -------------------------------- *)
Documents == {"1001", "1002"}

RegisterIn(document, name, school, gender) ==
    [document |-> document, name |-> name, school |-> school,
     gender |-> gender]

RegisterInputs ==
    { RegisterIn("1001", "Ana", "Aguachica", "Femenino"),
      RegisterIn("1002", "Leo", "Aractaca", "Masculino"),
      RegisterIn("1001", "Ana", "InvalidSchool", "Femenino"),
      RegisterIn("1002", "Leo", "Aractaca", "Otro") }

Patch(name, school, gender, money, level) ==
    [name |-> name, school |-> school, gender |-> gender,
     money |-> money, level |-> level]

UpdateInputs ==
    { Patch(<<"Luz">>, <<"La Argentina">>, <<"Masculino">>, <<>>, <<>>),
      Patch(<<"Eva">>, <<"InvalidSchool">>, <<>>, <<<<"9">>>>, <<3>>),
      Patch(<<"Eva">>, <<>>, <<"Otro">>, <<<<"9">>>>, <<3>>),
      Patch(<<>>, <<>>, <<>>, <<<<"a", "b">>>>, <<>>),
      Patch(<<>>, <<>>, <<>>, <<<<" ", "0", "_", "7">>>>, <<5>>),
      Patch(<<>>, <<>>, <<>>, <<<<"-", "5">>>>, <<7>>),
      Patch(<<>>, <<>>, <<>>, <<>>, <<0>>) }

CompleteInputs == [coins_earned : {0, 7}, time_spent : {30}]

Headers == {<<>>, <<"Basic", 1>>} \cup {<<"Bearer", t>> : t \in 0..(next_token - 1)}

TickDays == {SessionDays - 1, SessionDays}

Workers == 1..MaxWorkers

Idle == [pc |-> "idle"]

(* -------------------------------- state -------------------------------- *)
Init ==
    /\ users = <<>>
    /\ sessions = {}
    /\ item \in Catalogs
    /\ user_earned_items = <<>>
    /\ user_time = <<>>
    /\ now = 0
    /\ next_token = 1
    /\ inflight = [w \in Workers |-> Idle]
    /\ last = [op |-> "init", status |-> 0, committed |-> FALSE, uid |-> 0,
               arg |-> None, out |-> None]
    /\ hist = <<>>
    /\ updates = 0

Served(op, status, committed, uid, arg, out) ==
    [op |-> op, status |-> status, committed |-> committed, uid |-> uid,
     arg |-> arg, out |-> out]

NewHist(money, total) ==
    [init |-> PyInt(money), sum |-> 0, calls |-> 0, total |-> total]

(* ------------------------------- actions ------------------------------- *)
Register(p, maxUsers) ==
    LET r == register(users, p)
    IN /\ r.committed => Len(users) < maxUsers
       /\ users' = r.users
       /\ hist' = IF r.committed THEN Append(hist, NewHist(DefaultMoney, 0))
                  ELSE hist
       /\ last' = Served("register", r.status, r.committed,
                         IF r.committed THEN Len(r.users) ELSE 0, p, None)
       /\ UNCHANGED <<sessions, item, user_earned_items, user_time, now,
                      next_token, inflight, updates>>

Login(document, maxTokens) ==
    LET user == find_user(users, document)
    IN IF user = None
       THEN /\ last' = Served("login", 404, FALSE, 0, document, None)
            /\ UNCHANGED <<users, sessions, item, user_earned_items,
                           user_time, now, next_token, inflight, hist, updates>>
       ELSE /\ next_token <= maxTokens
            /\ sessions' = create_session(sessions, user.id, FreshToken, now)
            /\ next_token' = next_token + 1
            /\ last' = Served("login", 200, TRUE, user.id, document,
                              [token |-> FreshToken,
                               user |-> UserOut(user, item, user_earned_items)])
            /\ UNCHANGED <<users, item, user_earned_items, user_time, now,
                           inflight, hist, updates>>

Logout(token) ==
    LET r == logout(sessions, token)
    IN /\ sessions' = r.sessions
       /\ last' = Served("logout", 200, TRUE, 0, token,
                         [ok |-> TRUE, deleted |-> r.deleted])
       /\ UNCHANGED <<users, item, user_earned_items, user_time, now,
                      next_token, inflight, hist, updates>>

Me(authorization) ==
    LET auth == require_auth(sessions, users, authorization, now)
    IN /\ last' = IF auth.status # 200
                  THEN Served("me", auth.status, FALSE, 0, authorization, None)
                  ELSE Served("me", 200, FALSE, auth.user.id, authorization,
                              UserOut(auth.user, item, user_earned_items))
       /\ UNCHANGED <<users, sessions, item, user_earned_items, user_time,
                      now, next_token, inflight, hist, updates>>

CompleteLevel(authorization, data, maxCalls) ==
    LET auth == require_auth(sessions, users, authorization, now)
    IN IF auth.status # 200
       THEN /\ last' = Served("complete_level", auth.status, FALSE, 0,
                              [auth |-> authorization, data |-> None], None)
            /\ UNCHANGED <<users, sessions, item, user_earned_items,
                           user_time, now, next_token, inflight, hist, updates>>
       ELSE LET uid == auth.user.id
                r == complete_level(auth.user, data, item, user_earned_items)
            IN /\ r.committed => Len(user_time) < maxCalls
               /\ users' = [users EXCEPT ![uid] = r.user]
               /\ user_time' = user_time \o r.times
               /\ user_earned_items' = user_earned_items \o r.earned
               /\ hist' = IF r.committed
                          THEN [hist EXCEPT
                                   ![uid].sum = @ + data.coins_earned,
                                   ![uid].calls = @ + 1,
                                   ![uid].total = @ + 1]
                          ELSE hist
               /\ last' = Served("complete_level", r.status, r.committed, uid,
                                 [auth |-> authorization, data |-> data],
                                 IF r.committed
                                 THEN UserOut(r.user, item, user_earned_items')
                                 ELSE None)
               /\ UNCHANGED <<sessions, item, now, next_token, inflight, updates>>

Update(authorization, data, maxUpdates) ==
    LET auth == require_auth(sessions, users, authorization, now)
    IN IF auth.status # 200
       THEN /\ last' = Served("update_me", auth.status, FALSE, 0,
                              [auth |-> authorization, data |-> None], None)
            /\ UNCHANGED <<users, sessions, item, user_earned_items,
                           user_time, now, next_token, inflight, hist, updates>>
       ELSE LET uid == auth.user.id
                r == update_me(auth.user, data)
            IN /\ r.committed => updates < maxUpdates
               /\ updates' = IF r.committed THEN updates + 1 ELSE updates
               /\ users' = [users EXCEPT ![uid] = r.user]
               /\ hist' = IF r.committed /\ data.money # <<>>
                          THEN [hist EXCEPT ![uid] = NewHist(data.money[1], hist[uid].total)]
                          ELSE hist
               /\ last' = Served("update_me", r.status, r.committed, uid,
                                 [auth |-> authorization, data |-> data], None)
               /\ UNCHANGED <<sessions, item, user_earned_items, user_time,
                              now, next_token, inflight>>

Tick(days) ==
    /\ now + days <= MaxNow
    /\ now' = now + days
    /\ last' = Served("tick", 0, FALSE, 0, None, None)
    /\ UNCHANGED <<users, sessions, item, user_earned_items, user_time,
                   next_token, inflight, hist, updates>>

\* Every operation of the API, and the passing of time.
Next ==
    \/ \E p \in RegisterInputs : Register(p, MaxUsers)
    \/ \E d \in Documents : Login(d, MaxLogins)
    \/ \E t \in 0..(next_token - 1) : Logout(t)
    \/ \E h \in Headers : Me(h)
    \/ \E h \in Headers, d \in CompleteInputs :
          CompleteLevel(h, d, MaxCompletions)
    \/ \E h \in Headers, d \in UpdateInputs : Update(h, d, MaxUpdates)
    \/ \E d \in TickDays : Tick(d)

Spec == Init /\ [][Next]_vars

\* Profile and progression: register, login, complete-level, update.
NextProfile ==
    \/ \E p \in RegisterInputs : Register(p, MaxUsers)
    \/ \E d \in Documents : Login(d, MaxLogins)
    \/ \E h \in Headers, d \in CompleteInputs :
          CompleteLevel(h, d, MaxCompletions)
    \/ \E h \in Headers, d \in UpdateInputs : Update(h, d, MaxUpdates)

SpecProfile == Init /\ [][NextProfile]_vars

\* Sessions only: issue, validate, revoke, expire.
NextSession ==
    \/ \E p \in RegisterInputs : Register(p, MaxUsers)
    \/ \E d \in Documents : Login(d, MaxTokens)
    \/ \E t \in 0..(next_token - 1) : Logout(t)
    \/ \E h \in Headers : Me(h)
    \/ \E d \in TickDays : Tick(d)

SpecSession == Init /\ [][NextSession]_vars

\* Players driven by register, login and complete-level only.
NextProgress ==
    \/ \E p \in RegisterInputs : Register(p, MaxUsers)
    \/ \E d \in Documents : Login(d, MaxPlayers)
    \/ \E h \in Headers, d \in CompleteInputs :
          CompleteLevel(h, d, MaxCalls)

SpecProgress == Init /\ [][NextProgress]_vars

\* Every operation again, on one player and with fewer request bodies.
CoreRegisterInputs == {RegisterIn("1001", "Ana", "Aguachica", "Femenino")}

CoreUpdateInputs ==
    { Patch(<<>>, <<>>, <<>>, <<<<"a", "b">>>>, <<>>),
      Patch(<<>>, <<>>, <<>>, <<<<" ", "0", "_", "7">>>>, <<4>>) }

CoreCompleteInputs == [coins_earned : {7}, time_spent : {30}]

NextCore ==
    \/ \E p \in CoreRegisterInputs : Register(p, MaxUsers)
    \/ \E d \in Documents : Login(d, MaxSessions)
    \/ \E t \in 0..(next_token - 1) : Logout(t)
    \/ \E h \in Headers : Me(h)
    \/ \E h \in Headers, d \in CoreCompleteInputs :
          CompleteLevel(h, d, MaxRecords)
    \/ \E h \in Headers, d \in CoreUpdateInputs : Update(h, d, MaxUpdates)
    \/ \E d \in TickDays : Tick(d)

SpecCore == Init /\ [][NextCore]_vars

(* ------------------- requests of concurrent workers -------------------- *)
\* register up to its existence check; the insert is a later step.
RegisterBegin(w, p) ==
    /\ inflight[w] = Idle
    /\ IF ~ValidRegisterIn(p)
       THEN /\ last' = Served("register", 422, FALSE, 0, p, None)
            /\ UNCHANGED inflight
       ELSE IF register_exists(users, p.document)
       THEN /\ last' = Served("register", 400, FALSE, 0, p, None)
            /\ UNCHANGED inflight
       ELSE /\ inflight' = [inflight EXCEPT ![w] =
                               [pc |-> "register_insert", payload |-> p]]
            /\ UNCHANGED last
    /\ UNCHANGED <<users, sessions, item, user_earned_items, user_time, now,
                   next_token, hist, updates>>

\* db.add(user); db.commit(): the store rejects a duplicate document and the
\* IntegrityError, which nothing catches, answers 500.
RegisterCommit(w, maxUsers) ==
    /\ inflight[w].pc = "register_insert"
    /\ LET p == inflight[w].payload
           r == register_insert(users, p)
       IN /\ r.ok => Len(users) < maxUsers
          /\ users' = r.users
          /\ hist' = IF r.ok THEN Append(hist, NewHist(DefaultMoney, 0)) ELSE hist
          /\ last' = Served("register", 500, r.ok,
                            IF r.ok THEN Len(r.users) ELSE 0, p, None)
    /\ inflight' = [inflight EXCEPT ![w] = Idle]
    /\ UNCHANGED <<sessions, item, user_earned_items, user_time, now,
                   next_token, updates>>

NextRace ==
    \/ \E w \in Workers, p \in RegisterInputs : RegisterBegin(w, p)
    \/ \E w \in Workers : RegisterCommit(w, MaxUsers)
    \/ \E d \in Documents : Login(d, MaxTokens)
    \/ \E h \in Headers : Me(h)

SpecRace == Init /\ [][NextRace]_vars

\* complete_level of concurrent workers, each with its own session and
\* transaction: require_auth loads the player row; the handler body works on
\* that row and looks up items and links; the commit writes.
RaceCompleteInputs == [coins_earned : {3, 7}, time_spent : {30}]

Admitted == Len(user_time) + Cardinality({w \in Workers : inflight[w] # Idle})

CompleteAuth(w, authorization, data, maxRequests) ==
    /\ inflight[w] = Idle
    /\ LET auth == require_auth(sessions, users, authorization, now)
       IN IF auth.status # 200
          THEN /\ last' = Served("complete_level", auth.status, FALSE, 0,
                                 [auth |-> authorization, data |-> None], None)
               /\ UNCHANGED inflight
          ELSE /\ Admitted < maxRequests
               /\ inflight' = [inflight EXCEPT ![w] =
                                  [pc |-> "complete_body",
                                   auth |-> authorization, data |-> data,
                                   current |-> auth.user]]
               /\ UNCHANGED last
    /\ UNCHANGED <<users, sessions, item, user_earned_items, user_time, now,
                   next_token, hist, updates>>

CompleteBody(w) ==
    /\ inflight[w].pc = "complete_body"
    /\ LET req == inflight[w]
           r == complete_level(req.current, req.data, item, user_earned_items)
       IN IF ~r.committed
          THEN /\ last' = Served("complete_level", r.status, FALSE,
                                 req.current.id,
                                 [auth |-> req.auth, data |-> req.data], None)
               /\ inflight' = [inflight EXCEPT ![w] = Idle]
          ELSE /\ inflight' = [inflight EXCEPT ![w] =
                                  [pc |-> "complete_commit",
                                   auth |-> req.auth, data |-> req.data,
                                   current |-> req.current, pending |-> r]]
               /\ UNCHANGED last
    /\ UNCHANGED <<users, sessions, item, user_earned_items, user_time, now,
                   next_token, hist, updates>>

CompleteCommit(w) ==
    /\ inflight[w].pc = "complete_commit"
    /\ LET req == inflight[w]
           uid == req.current.id
       IN /\ users' = [users EXCEPT
                          ![uid] = flush_user(@, req.current, req.pending.user)]
          /\ user_time' = user_time \o req.pending.times
          /\ user_earned_items' = user_earned_items \o req.pending.earned
          /\ hist' = [hist EXCEPT ![uid].sum = @ + req.data.coins_earned,
                                  ![uid].calls = @ + 1,
                                  ![uid].total = @ + 1]
          /\ last' = Served("complete_level", 200, TRUE, uid,
                            [auth |-> req.auth, data |-> req.data],
                            UserOut(users'[uid], item, user_earned_items'))
    /\ inflight' = [inflight EXCEPT ![w] = Idle]
    /\ UNCHANGED <<sessions, item, now, next_token, updates>>

NextConcurrent ==
    \/ \E p \in CoreRegisterInputs : Register(p, MaxUsers)
    \/ \E d \in Documents : Login(d, MaxPlayers)
    \/ \E w \in Workers, h \in Headers, d \in RaceCompleteInputs :
          CompleteAuth(w, h, d, MaxRequests)
    \/ \E w \in Workers : CompleteBody(w)
    \/ \E w \in Workers : CompleteCommit(w)

SpecConcurrent == Init /\ [][NextConcurrent]_vars

(* ------------------------------- claims -------------------------------- *)
\* The step just taken committed a complete-level call of user u.
CompletedBy(u) ==
    /\ last'.op = "complete_level"
    /\ last'.status = 200
    /\ last'.uid = u
    /\ Len(user_time') = Len(user_time) + 1

\* C1: under register, login and complete-level alone a player's level never
\* decreases and stays within 1..5; a committed call at a level below 5
\* raises it by exactly 1 and a committed call at level 5 leaves it at 5.
C1_LevelMonotonicCapped ==
    [][/\ \A u \in UserIds(users') : users'[u].level \in 1..MaxLevel
       /\ \A u \in UserIds(users) :
             /\ u \in UserIds(users')
             /\ users'[u].level >= users[u].level
             /\ CompletedBy(u) =>
                   users'[u].level =
                      IF users[u].level < MaxLevel THEN users[u].level + 1
                      ELSE MaxLevel]_vars

\* A player who reached level 5 and then completed a level once more.
C1_Witness ==
    \E u \in UserIds(users) :
        /\ last.op = "complete_level" /\ last.status = 200 /\ last.uid = u
        /\ users[u].level = MaxLevel
        /\ hist[u].calls = MaxLevel

\* Links of user u to item i.
Links(u, i) ==
    {k \in 1..Len(user_earned_items) :
        user_earned_items[k].user_id = u /\ user_earned_items[k].item_id = i}

\* C2: after any sequence of complete-level calls run one after the other,
\* including calls at the level cap, there is at most one link per (player,
\* item) pair, and every catalogued reward of a level the player completed
\* is linked exactly once.
C2_OneLinkPerPlayerItem ==
    \A u \in UserIds(users) : \A it \in item :
        /\ Cardinality(Links(u, it.id)) <= 1
        /\ (\E l \in 1..(users[u].level - 1) : it.name \in LEVEL_REWARDS(l))
              => Cardinality(Links(u, it.id)) = 1

\* A player at the cap who called again and holds the rewards of level 4.
C2_Witness ==
    \E u \in UserIds(users) :
        /\ last.op = "complete_level" /\ last.status = 200 /\ last.uid = u
        /\ hist[u].calls > MaxLevel - 1
        /\ \E it \in item : it.name = "cristal-verde" /\ Links(u, it.id) # {}

Validate(token) == user_by_token(sessions, users, token, now)

\* C4: validate returns a player only for a token whose session row exists
\* and expires strictly after now, and then the row's owner; never for an
\* unknown token or a row with expires_at <= now.  The token login returns
\* is valid right after the login.
C4_ValidateOnlyLiveSessions ==
    /\ \A t \in 0..next_token :
          Validate(t) # None =>
             \E s \in sessions :
                /\ s.token = t /\ s.expires_at > now
                /\ s.user_id \in UserIds(users)
                /\ Validate(t) = users[s.user_id]
    /\ \A s \in sessions : s.expires_at <= now => Validate(s.token) = None
    /\ (last.op = "login" /\ last.status = 200) =>
          /\ Validate(last.out.token) = users[last.uid]
          /\ users[last.uid].document = last.arg

\* A session at its expiry instant: validate rejects its token.
C4_Witness ==
    \E s \in sessions : s.expires_at = now /\ Validate(s.token) = None

\* C5: a logout makes its token invalid, and a token that is invalid stays
\* invalid whatever follows (later logins issue other tokens).
C5_RevokedStaysInvalid ==
    [][/\ last'.op = "logout" =>
             user_by_token(sessions', users', last'.arg, now') = None
       /\ \A t \in 0..(next_token - 1) :
             Validate(t) = None =>
                user_by_token(sessions', users', t, now') = None]_vars

\* A login served after an earlier token had been revoked before expiring.
C5_Witness ==
    /\ last.op = "login" /\ last.status = 200
    /\ now < SessionDays
    /\ \E t \in 1..(last.out.token - 1) :
          /\ \A s \in sessions : s.token # t
          /\ Validate(t) = None

\* C6: a registration that commits adds exactly one player, with level 1,
\* balance "0", no earned items and the document, name, school and gender
\* supplied; the other rows stay as they were.
C6_RegisterCreatesFreshPlayer ==
    [][(last'.op = "register" /\ last'.committed /\ last' # last) =>
          /\ Len(users') = Len(users) + 1
          /\ SubSeq(users', 1, Len(users)) = users
          /\ LET new == users'[Len(users')]
             IN /\ new.level = 1
                /\ new.money = <<"0">>
                /\ new.document = last'.arg.document
                /\ new.name = last'.arg.name
                /\ new.school = last'.arg.school
                /\ new.gender = last'.arg.gender
                /\ new.id = last'.uid
                /\ earned_items(item', user_earned_items', new.id) = {}]_vars

\* A second player was just created beside an existing one.
C6_Witness ==
    /\ last.op = "register" /\ last.committed
    /\ Len(users) = 2
    /\ users[2].document = last.arg.document

\* C7: no two players share a document, and a registration that finds its
\* document taken, at its check or at its insert, fails and changes nothing;
\* two registrations of one document may interleave check and insert.
C7_DocumentsUnique ==
    [][/\ \A i, j \in UserIds(users') :
             i # j => users'[i].document # users'[j].document
       /\ (last'.op = "register" /\ last' # last
             /\ register_exists(users, last'.arg.document)) =>
                /\ ~last'.committed
                /\ last'.status \in {400, 422, 500}
                /\ users' = users]_vars

\* A registration passed its check, lost the race and was rejected by the
\* store at its insert.
C7_Witness ==
    /\ last.op = "register" /\ last.status = 500 /\ ~last.committed
    /\ register_exists(users, last.arg.document)

InvalidEnum(data) ==
    \/ data.school # <<>> /\ data.school[1] \notin SCHOOL_VALUES
    \/ data.gender # <<>> /\ data.gender[1] \notin GENDER_VALUES

\* C8: an authenticated update whose patch carries a school or gender
\* outside its enum is answered with a validation error and leaves every
\* table as it was, name, money and level of the same patch included.
C8_InvalidEnumPatchChangesNothing ==
    [][(last'.op = "update_me" /\ last'.arg.data # None
          /\ InvalidEnum(last'.arg.data)) =>
             /\ last'.status \in {400, 422}
             /\ ~last'.committed
             /\ users' = users
             /\ sessions' = sessions
             /\ user_time' = user_time
             /\ user_earned_items' = user_earned_items]_vars

\* The patch {name, school: InvalidSchool, money, level} was just rejected.
C8_Witness ==
    /\ last.op = "update_me" /\ last.status = 422
    /\ last.arg.data # None
    /\ last.arg.data.school = <<"InvalidSchool">>
    /\ last.arg.data.name = <<"Eva">>
    /\ last.arg.data.level = <<3>>
    /\ users[last.uid].name # "Eva"
    /\ users[last.uid].level # 3

\* C9: a complete-level call of an authenticated player whose stored balance
\* does not parse answers 500 and leaves users, time records and earned
\* items exactly as they were.
C9_UnparsableBalanceRollsBack ==
    [][(/\ last'.op = "complete_level"
        /\ last'.uid \in UserIds(users)
        /\ ~PyInt(users[last'.uid].money).ok) =>
             /\ last'.status = 500
             /\ ~last'.committed
             /\ users' = users
             /\ user_time' = user_time
             /\ user_earned_items' = user_earned_items]_vars

\* A call below the cap just failed on the balance "ab".
C9_Witness ==
    /\ last.op = "complete_level" /\ last.status = 500
    /\ last.uid \in UserIds(users)
    /\ users[last.uid].money = <<"a", "b">>
    /\ users[last.uid].level < MaxLevel

\* C10: under every operation each level is within 1..5 and never lower
\* than before.
C10_LevelInRangeNeverLower ==
    [][\A u \in UserIds(users') :
          /\ users'[u].level \in 1..5
          /\ u \in UserIds(users) => users'[u].level >= users[u].level]_vars

\* C11: under every operation each player's stored money is the decimal text
\* of a non-negative integer.
C11_MoneyIsNonNegativeDecimal ==
    \A u \in UserIds(users) :
        LET m == PyInt(users[u].money)
        IN m.ok /\ m.val >= 0 /\ users[u].money = PyStr(m.val)

\* C12: register, complete-level and update, once their change is committed,
\* answer 200 with the player's committed attributes and all earned items,
\* which is the view GET /me gives in that same state; none commits and then
\* fails to answer.
C12_CommittedChangeDeliversView ==
    (last.op \in {"register", "complete_level", "update_me"}
        /\ last.committed) =>
           /\ last.status = 200
           /\ last.out = UserOut(users[last.uid], item, user_earned_items)

\* Time records of user u.
TimesOf(tbl, u) == {k \in 1..Len(tbl) : tbl[k].user_id = u}

\* C13: a complete-level call answered 200 appends exactly one time record,
\* with the caller's id, the seconds supplied and the level after the call
\* minus 1 (4 for a call at level 5); every other step leaves the time
\* records as they were; so each player has as many records as committed
\* complete-level calls.
C13_OneTimeRecordPerCall ==
    [][/\ IF last'.op = "complete_level" /\ last'.status = 200
          THEN /\ user_time' =
                     Append(user_time,
                            [user_id |-> last'.uid,
                             time |-> last'.arg.data.time_spent,
                             level |-> users'[last'.uid].level - 1])
               /\ users[last'.uid].level = MaxLevel =>
                     user_time'[Len(user_time')].level = MaxLevel - 1
          ELSE user_time' = user_time
       /\ \A u \in UserIds(users') :
             Cardinality(TimesOf(user_time', u)) = hist'[u].total]_vars

\* A call took the player from level 4 to 5 and a second call at level 5
\* recorded level 4 again.
C13_Witness ==
    \E u \in UserIds(users) :
        /\ last.op = "complete_level" /\ last.status = 200 /\ last.uid = u
        /\ users[u].level = MaxLevel
        /\ hist[u].total = 2
        /\ Len(user_time) = 2
        /\ user_time[1].level = MaxLevel - 1
        /\ user_time[2] = [user_id |-> u, time |-> 30, level |-> MaxLevel - 1]

\* Names of the items user u owns.
OwnedNames(u) == {it.name : it \in earned_items(item, user_earned_items, u)}

\* Reward names of the levels 1..(level - 1).
RewardsBelow(level) == UNION {LEVEL_REWARDS(l) : l \in 1..(level - 1)}

\* C14: under register, login and complete-level calls run one after the
\* other, a player owns exactly the catalogued rewards of the levels below
\* the player's level: with all eight items in the catalog that is the union
\* of the reward sets of levels 1..(level - 1), {cinturon, cristal-rojo} at
\* level 2, and calls at level 5 add nothing; a reward missing from the
\* catalog is skipped and the call still answers 200.
C14_OwnsRewardsOfCompletedLevels ==
    /\ \A u \in UserIds(users) :
          /\ OwnedNames(u) =
                RewardsBelow(users[u].level) \cap {it.name : it \in item}
          /\ {it.name : it \in item} = AllRewardNames =>
                /\ OwnedNames(u) = RewardsBelow(users[u].level)
                /\ users[u].level = 2 =>
                      OwnedNames(u) = {"cinturon", "cristal-rojo"}
                /\ users[u].level = MaxLevel => OwnedNames(u) = AllRewardNames
    /\ (last.op = "complete_level" /\ last.uid # 0) => last.status = 200

\* With the complete catalog, a player at level 5 called once more and owns
\* the eight rewards.
C14_Witness ==
    \E u \in UserIds(users) :
        /\ last.op = "complete_level" /\ last.status = 200 /\ last.uid = u
        /\ Cardinality(item) = 8
        /\ users[u].level = MaxLevel
        /\ hist[u].total = MaxLevel
        /\ Cardinality(earned_items(item, user_earned_items, u)) = 8

\* The Authorization header of a served request of me, complete-level or
\* update.
HeaderOf(l) == IF l.op = "me" THEN l.arg ELSE l.arg.auth

\* Missing header, other scheme, unknown token or expired session.
Unauthenticated(h) ==
    \/ h = <<>>
    \/ h[1] # "Bearer"
    \/ \A s \in sessions : s.token # h[2]
    \/ \E s \in sessions : s.token = h[2] /\ s.expires_at <= now

\* C15: a request to me, complete-level or update whose header is missing,
\* is not a Bearer header, or carries an unknown or expired token is answered
\* 401 and leaves users, sessions, earned items and time records unchanged.
C15_UnauthenticatedChangesNothing ==
    [][(last'.op \in {"me", "complete_level", "update_me"}
          /\ Unauthenticated(HeaderOf(last'))) =>
             /\ last'.status = 401
             /\ ~last'.committed
             /\ last'.out = None
             /\ users' = users
             /\ sessions' = sessions
             /\ user_earned_items' = user_earned_items
             /\ user_time' = user_time]_vars

\* A complete-level call was just rejected for a token whose session had
\* expired.
C15_Witness ==
    /\ last.op = "complete_level" /\ last.status = 401
    /\ last.arg.auth # <<>>
    /\ last.arg.auth[1] = "Bearer"
    /\ \E s \in sessions : s.token = last.arg.auth[2] /\ s.expires_at <= now

\* Sessions of user u that authenticate at time t.
LiveOf(tbl, u, t) == {s \in tbl : s.user_id = u /\ s.expires_at > t}

\* C16: a login adds exactly one session, of the player logging in and with
\* the token returned, and leaves every other session as it was; logout(T)
\* removes exactly the session with token T, reports 1 if there was one and
\* 0 otherwise, and leaves every other session, the same player's included,
\* as valid as before.
C16_LoginAddsLogoutRemovesOne ==
    [][/\ (last'.op = "login" /\ last'.status = 200) =>
             \E s \in sessions' :
                /\ s \notin sessions
                /\ sessions' = sessions \cup {s}
                /\ s.user_id = last'.uid
                /\ s.token = last'.out.token
                /\ \A x \in sessions : x.token # s.token
       /\ last'.op = "logout" =>
             /\ sessions' = {s \in sessions : s.token # last'.arg}
             /\ last'.out.deleted =
                   (IF \E s \in sessions : s.token = last'.arg THEN 1 ELSE 0)
             /\ \A s \in sessions :
                   s.token # last'.arg =>
                      /\ s \in sessions'
                      /\ user_by_token(sessions', users', s.token, now')
                            = user_by_token(sessions, users, s.token, now)]_vars

\* A player held three valid sessions and revoked one: the logout reported 1
\* and the other two still authenticate.
C16_Witness ==
    /\ last.op = "logout" /\ last.out.deleted = 1
    /\ \E u \in UserIds(users) :
          /\ Cardinality(LiveOf(sessions, u, now)) = 2
          /\ \A s \in LiveOf(sessions, u, now) :
                /\ s.token # last.arg
                /\ Validate(s.token) = users[u]
          /\ \A v \in UserIds(users) : v # u => LiveOf(sessions, v, now) = {}

\* C17: the session a login creates expires 7 days after the login; no step
\* of any operation changes the expiry of an existing session; and a token
\* authenticates at no time at or after its expiry, whatever it was used
\* for before.
C17_ExpiryFixedAtIssue ==
    [][/\ (last'.op = "login" /\ last'.status = 200) =>
             \E s \in sessions' :
                /\ s.token = last'.out.token
                /\ s.expires_at = now + SessionDays
       /\ \A s \in sessions : \A x \in sessions' :
             x.token = s.token => x = s
       /\ \A s \in sessions' :
             now' >= s.expires_at =>
                /\ user_by_token(sessions', users', s.token, now') = None
                /\ require_auth(sessions', users', <<"Bearer", s.token>>,
                                now').status = 401]_vars

\* The only token issued, at time 0, paid for a committed complete-level
\* call and is refused by GET /me at time 7.
C17_Witness ==
    /\ next_token = 2
    /\ user_time # <<>>
    /\ now = SessionDays
    /\ sessions = {[user_id |-> 1, token |-> 1, expires_at |-> SessionDays]}
    /\ last.op = "me" /\ last.status = 401 /\ last.arg = <<"Bearer", 1>>

\* Every request admitted has been answered.
AllServed == \A w \in Workers : inflight[w] = Idle

\* C18: once two complete-level requests of one player that interleaved,
\* each in its own transaction, have both committed, there is at most one
\* link per (player, item) pair.
C18_OneLinkAfterInterleaving ==
    AllServed =>
       \A u \in UserIds(users) : \A it \in item :
           Cardinality(Links(u, it.id)) <= 1

\* C19: once two complete-level requests of one player with coins a and b
\* that interleaved have both committed, the balance is the initial one plus
\* a + b and the level has advanced once per call, up to 5.
C19_NoLostUpdate ==
    AllServed =>
       \A u \in UserIds(users) :
           /\ users[u].money = PyStr(hist[u].init.val + hist[u].sum)
           /\ users[u].level =
                 IF DefaultLevel + hist[u].total < MaxLevel
                 THEN DefaultLevel + hist[u].total ELSE MaxLevel

====
